---- MODULE Spec2Model ----
(***************************************************************************)
(* A model of the katagollum web client: the page controller (page.tsx),   *)
(* the board renderer's coordinate arithmetic (GoBoard), the chat panel's  *)
(* guard (Chat) and the API client's engine board fetch (lib/api).         *)
(*                                                                         *)
(* Encoding of JavaScript values:                                          *)
(*   - a string is a sequence of character codes; "" is << >>;             *)
(*   - a value that may be null/undefined is a sequence of length 0 or 1   *)
(*     (None == << >>, Some(x) == << x >>); a nullable string is the       *)
(*     string itself, null and "" both being << >> (the code only ever     *)
(*     tests such values for truthiness);                                  *)
(*   - komi is counted in half points (6.5 -> 13), so 0 stays falsy.       *)
(***************************************************************************)
EXTENDS Integers, Sequences, FiniteSets, TLC

VARIABLES
    game,           \* useState<Game | null>
    boardState,     \* useState<BoardState | null>
    messages,       \* useState<ChatMsg[]>
    isSubmitting,   \* useState(false)
    isThinking,     \* useState(false)
    previewCoord,   \* useState<string | null>
    error,          \* useState<string | null>
    pendingMove,    \* useState<{row, col, color} | null>
    lastMoveCoord,  \* useState<string | null>
    now,            \* the value Date.now() returns
    start,          \* the running startGame invocation and the call it awaits
    move,           \* the running handleMoveSubmit invocation
    chats,          \* the running handleChatMessage invocations
    lastOp,         \* "move.blocked" or "chat.blocked" right after a dropped submission
    calc,           \* inputs and results of the coordinate functions
    track,          \* whether handlers record what they found when invoked
    hoverCoord,     \* GoBoard's useState<string | null>
    drawn           \* Home is mounted: no render has raised so far

vars == << game, boardState, messages, isSubmitting, isThinking, previewCoord,
           error, pendingMove, lastMoveCoord, now, start, move, chats, lastOp, calc, track,
           hoverCoord, drawn >>

\* Left alone by every step of the controller
fixed == << calc, track, hoverCoord >>

ui == << game, boardState, messages, isSubmitting, isThinking, previewCoord,
         error, pendingMove, lastMoveCoord >>

----------------------------------------------------------------------------
(* Bounds of the model *)

\* Date.now() takes the values 0..MaxClock.
MaxClock == 1
\* A move or chat is accepted by the model only while the list is this short.
MaxMsgs == 1
\* Number of handleChatMessage invocations that may be running at once.
MaxChats == 2

----------------------------------------------------------------------------
(* JavaScript values *)

None == << >>
Some(x) == << x >>

\* Character codes
ChA == 65
ChI == 73

IsDigit(c) == c >= 48 /\ c <= 57

\* coord[0].toUpperCase().charCodeAt(0): the first code unit of the upper
\* case of a one-character string, for the code units 0..255 (Latin-1).
\* The upper case of 'ß' is "SS", of 'µ' U+039C, of 'ÿ' U+0178.
ToUpperCase(c) ==
    IF c >= 97 /\ c <= 122 THEN c - 32
    ELSE IF c = 181 THEN 924
    ELSE IF c = 223 THEN 83
    ELSE IF c >= 224 /\ c <= 254 /\ c # 247 THEN c - 32
    ELSE IF c = 255 THEN 376
    ELSE c

\* Number.prototype.toString on an integer
RECURSIVE NatToString(_)
NatToString(n) ==
    IF n < 10 THEN << 48 + n >>
    ELSE Append(NatToString(n \div 10), 48 + (n % 10))

NumberToString(n) == IF n < 0 THEN << 45 >> \o NatToString(0 - n) ELSE NatToString(n)

\* StrWhiteSpaceChar: white space and line terminators
IsWhiteSpace(c) ==
    \/ c \in { 9, 10, 11, 12, 13, 32, 160, 5760, 8232, 8233, 8239, 8287, 12288, 65279 }
    \/ (c >= 8192 /\ c <= 8202)

\* The string without its leading StrWhiteSpaceChars
RECURSIVE TrimStart(_)
TrimStart(s) ==
    IF s # << >> /\ IsWhiteSpace(Head(s)) THEN TrimStart(Tail(s)) ELSE s

\* The value of a character as a digit: 0-9, then a-z or A-Z for 10..35;
\* 36 when it is no digit of any radix
DigitOf(c) ==
    IF IsDigit(c) THEN c - 48
    ELSE IF c >= 97 /\ c <= 122 THEN c - 87
    ELSE IF c >= 65 /\ c <= 90 THEN c - 55
    ELSE 36

\* The value in radix R of the longest prefix of digits of s, from
\* accumulator acc
RECURSIVE DigitsValue(_, _, _)
DigitsValue(s, acc, R) ==
    IF s = << >> \/ DigitOf(Head(s)) >= R THEN acc
    ELSE DigitsValue(Tail(s), R * acc + DigitOf(Head(s)), R)

\* parseInt(s, radix): None is NaN; radix 0 stands for a call without a
\* radix.  Leading white space and one sign are skipped; "0x" or "0X" is
\* skipped, and makes the radix 16, when the radix is absent or 16.
parseInt(s, radix) ==
    LET t == TrimStart(s)
        signed == t # << >> /\ Head(t) \in { 43, 45 }
        u == IF signed THEN Tail(t) ELSE t
        hex == radix \in { 0, 16 } /\ Len(u) >= 2 /\ u[1] = 48 /\ u[2] \in { 120, 88 }
        R == IF radix # 0 THEN radix ELSE IF hex THEN 16 ELSE 10
        v == IF hex THEN SubSeq(u, 3, Len(u)) ELSE u
    IN  IF v = << >> \/ DigitOf(Head(v)) >= R THEN None
        ELSE IF signed /\ Head(t) = 45 THEN Some(0 - DigitsValue(v, 0, R))
        ELSE Some(DigitsValue(v, 0, R))

----------------------------------------------------------------------------
(* Board renderer: coordinates (GoBoard) *)

\* A mutation of getCoordinate: the letter 'I' is not skipped.
getCoordinateNoSkip(row, col, board_size) ==
    << ChA + col >> \o NumberToString(board_size - row)

getCoordinate(row, col, board_size) ==
    LET letter == IF col >= 8 THEN ChA + 1 + col ELSE ChA + col
        number == board_size - row
    IN  << letter >> \o NumberToString(number)

\* GoBoard's parseCoordinate: None is null
boardParseCoordinate(coord, board_size) ==
    IF Len(coord) < 2 THEN None
    ELSE LET letter == ToUpperCase(coord[1])
             number == parseInt(SubSeq(coord, 2, Len(coord)), 10)
         IN  IF number = None THEN None
             ELSE LET charCode == letter
                      col == IF charCode > ChI THEN charCode - 66 ELSE charCode - 65
                      row == board_size - number[1]
                  IN  IF row < 0 \/ row >= board_size \/ col < 0 \/ col >= board_size
                      THEN None
                      ELSE Some([row |-> row, col |-> col])

\* A mutation of the page's parseCoordinate: no correction for the skipped 'I'.
pageParseCoordinateNoSkip(coord, boardSize) ==
    LET number == parseInt(SubSeq(coord, 2, Len(coord)), 0)
    IN  [row |-> IF number = None THEN None ELSE Some(boardSize - number[1]),
         col |-> ToUpperCase(coord[1]) - 65]

\* The page controller's parseCoordinate.  row is None when it is NaN.
\* coord is not empty (coord[0].toUpperCase() raises a TypeError otherwise).
pageParseCoordinate(coord, boardSize) ==
    LET letter == ToUpperCase(coord[1])
        number == parseInt(SubSeq(coord, 2, Len(coord)), 0)
        col0 == letter - 65
        col == IF col0 >= 8 THEN col0 - 1 ELSE col0
    IN  [row |-> IF number = None THEN None ELSE Some(boardSize - number[1]),
         col |-> col]

\* The board sizes the setup form offers
BoardSizes == {9, 13, 19}

\* A mutation of renderStarPoints: the 9x9 board has no centre point.
renderStarPointsNoCenter(size) ==
    [r \in 0..(size - 1) |-> [c \in 0..(size - 1) |->
        IF size = 19 THEN r \in {3, 9, 15} /\ c \in {3, 9, 15}
        ELSE IF size = 13 THEN r \in {3, 9} /\ c \in {3, 9}
        ELSE IF size = 9 THEN r \in {2, 6} /\ c \in {2, 6}
        ELSE FALSE]]

\* renderStarPoints: stars[r][c] for the rows and columns 0..size-1
renderStarPoints(size) ==
    [r \in 0..(size - 1) |-> [c \in 0..(size - 1) |->
        IF size = 19 THEN r \in {3, 9, 15} /\ c \in {3, 9, 15}
        ELSE IF size = 13 THEN r \in {3, 9} /\ c \in {3, 9}
        ELSE IF size = 9 THEN (r \in {2, 6} /\ c \in {2, 6}) \/ (r = 4 /\ c = 4)
        ELSE FALSE]]

----------------------------------------------------------------------------
(* API client (lib/api) *)

\* An HTTP exchange as the client sees it: fetch rejects (network error,
\* timeout) or resolves with res.ok and a JSON body.
Http(fetch, ok, body) == [fetch |-> fetch, ok |-> ok, body |-> body]

\* What an awaited API call gives its caller: a value, or a raised error.
Returned(v) == [threw |-> FALSE, value |-> Some(v)]
Threw == [threw |-> TRUE, value |-> None]

\* A grid is a sequence of rows; a row is tagged with Array.isArray(row).
Row(cells) == [array |-> TRUE, cells |-> cells]
NotAnArrayRow == [array |-> FALSE, cells |-> << >>]

EmptyGrid(n) == [r \in 1..n |-> Row([c \in 1..n |-> "."])]
GridWith(n, r0, c0, mark) ==
    [r \in 1..n |-> Row([c \in 1..n |-> IF r = r0 /\ c = c0 THEN mark ELSE "."])]

\* The body of GET /board_state: result is None when the envelope is absent;
\* board is None when absent, and carries Array.isArray(board) otherwise;
\* board_size 0 stands for an absent (or zero) board_size.
EngineBody(result) == [result |-> result]
EngineResult(board, board_size) == [board |-> board, board_size |-> board_size]
JsonArray(rows) == [array |-> TRUE, rows |-> rows]
JsonNotArray == [array |-> FALSE, rows |-> << >>]

\* getKataGoBoardState: None is null.  It never raises.
getKataGoBoardState(resp) ==
    IF resp.fetch = "reject" THEN None
    ELSE IF ~resp.ok THEN None
    ELSE IF resp.body.result = None THEN None
    ELSE LET board == resp.body.result[1].board
         IN  IF board = None \/ ~board[1].array \/ Len(board[1].rows) = 0 THEN None
             ELSE Some([board |-> board[1].rows,
                        board_size |-> IF resp.body.result[1].board_size # 0
                                       THEN resp.body.result[1].board_size
                                       ELSE Len(board[1].rows)])

\* A mutation of sendChatMessage: the status is not examined.
sendChatMessageNoStatus(resp) ==
    IF resp.fetch = "reject" THEN [threw |-> TRUE, value |-> << >>]
    ELSE [threw |-> FALSE, value |-> << resp.body >>]

\* sendChatMessage raises on a rejected fetch and on a non-success status.
sendChatMessage(resp) ==
    IF resp.fetch = "reject" THEN Threw
    ELSE IF ~resp.ok THEN Threw
    ELSE Returned(resp.body)

\* createGame, getGameBoard, submitMove, getChatMessages, getFirstMove:
\* return res.json() whatever the status.
returnJson(resp) ==
    IF resp.fetch = "reject" THEN Threw ELSE Returned(resp.body)

----------------------------------------------------------------------------
(* Setup form (GameSetup) and the backend's answers *)

\* GAME_TYPES, komi in half points
GAME_TYPES == <<
    [komi |-> 13, handicap |-> 0], [komi |-> 0, handicap |-> 0],
    [komi |-> 1, handicap |-> 2], [komi |-> 1, handicap |-> 3],
    [komi |-> 1, handicap |-> 4], [komi |-> 1, handicap |-> 5],
    [komi |-> 1, handicap |-> 6], [komi |-> 1, handicap |-> 7],
    [komi |-> 1, handicap |-> 8], [komi |-> 1, handicap |-> 9] >>

\* The presets, sizes and cells the controller's model explores
ModelGameTypes == {2}
ModelSizes == {9}
ModelCells == { <<3, 8>> }

\* GameSetup.handleSubmit assembles the configuration
Configs ==
    { [boardSize |-> n, komi |-> GAME_TYPES[i].komi, handicap |-> GAME_TYPES[i].handicap,
       userColor |-> c] : n \in ModelSizes, i \in ModelGameTypes, c \in {"B", "W"} }

\* The Game the backend creates for a configuration
CreatedGame(config) ==
    [id |-> 1, board_size |-> config.boardSize, komi |-> config.komi,
     handicap |-> config.handicap, user_color |-> config.userColor,
     ai_color |-> IF config.userColor = "B" THEN "W" ELSE "B", game_over |-> FALSE]

\* A chat text: a literal followed by a coordinate (a template string)
Text(t) == [text |-> t, coord |-> << >>]
MyMove(coordinate) == [text |-> "My move: ", coord |-> coordinate]
IPlay(coordinate) == [text |-> "I play ", coord |-> coordinate]

\* A content that is undefined (no string)
Undefined == [undefined |-> TRUE]

ChatMsg(id, role, content) == [id |-> id, role |-> role, content |-> content]

\* BoardStates the database returns for a game: the game's own metadata,
\* the current game_over flag, a grid and the move list.
DbBoard(g, over, grid, moves) ==
    [board_size |-> g.board_size, komi |-> g.komi, user_color |-> g.user_color,
     ai_color |-> g.ai_color, game_over |-> over, board |-> grid, moves |-> moves]

OneMove == << [id |-> 1, color |-> "B", coordinate |-> getCoordinate(0, 0, 9), move_number |-> 1] >>

\* getGameBoard returns the body as it is: an empty board, a finished game
\* with one stone, and a board whose rows are not arrays.
DbBoards(g) ==
    { DbBoard(g, FALSE, EmptyGrid(g.board_size), << >>),
      DbBoard(g, TRUE, GridWith(g.board_size, 1, 1, "B"), OneMove),
      DbBoard(g, FALSE, [r \in 1..g.board_size |-> NotAnArrayRow], << >>) }

\* Answers of GET /board_state for a board of size n: a grid with one
\* stone, and the same grid with the rows from the k-th on not arrays.
EngineGrid(n) == GridWith(n, 2, 2, "W")
BrokenGrid(n, k) == [r \in 1..n |-> IF r >= k THEN NotAnArrayRow ELSE EngineGrid(n)[r]]
EngineOk(board, board_size) ==
    Http("resolve", TRUE, EngineBody(Some(EngineResult(board, board_size))))

\* The answers the controller's model explores: the fetch fails, the status
\* is not a success, the envelope is missing, the grid is absent, not an
\* array or empty, a grid arrives without and with board_size, a grid of
\* rows that are not arrays arrives, and a grid whose rows after the one with
\* the stone are not arrays.
EngineAnswers(n) ==
    { Http("reject", FALSE, EngineBody(None)),
      Http("resolve", FALSE, EngineBody(Some(EngineResult(Some(JsonArray(EngineGrid(n))), n)))),
      Http("resolve", TRUE, EngineBody(None)),
      EngineOk(None, n),
      EngineOk(Some(JsonNotArray), n),
      EngineOk(Some(JsonArray(<< >>)), n),
      EngineOk(Some(JsonArray(EngineGrid(n))), 0),
      EngineOk(Some(JsonArray(EngineGrid(n))), n),
      EngineOk(Some(JsonArray(BrokenGrid(n, 1))), n),
      EngineOk(Some(JsonArray(BrokenGrid(n, 3))), n) }

\* The same answers, tabulated by board size
EngineResponsesBySize == [n \in BoardSizes |-> EngineAnswers(n)]
EngineResponses(n) == EngineResponsesBySize[n]

\* Answers to POST submit_move: bot_response is None when the body has none
SubmitBody(bot_response, ai_move) == [bot_response |-> bot_response, ai_move |-> ai_move]
SubmitResponses ==
    { Http("reject", FALSE, SubmitBody(None, << >>)),
      Http("resolve", TRUE, SubmitBody(Some(Text("bot")), getCoordinate(2, 2, 9))),
      Http("resolve", TRUE, SubmitBody(Some(Text("bot")), << >>)),
      Http("resolve", FALSE, SubmitBody(Some(Text("bot")), << >>)),
      Http("resolve", TRUE, SubmitBody(None, getCoordinate(2, 2, 9))) }

\* Answers to POST send_message: bot_message is None when absent, and its
\* content is None when it is not a string
ChatBody(bot_message) == [bot_message |-> bot_message]
ChatResponses ==
    { Http("reject", FALSE, ChatBody(None)),
      Http("resolve", FALSE, ChatBody(None)),
      Http("resolve", TRUE, ChatBody(Some([content |-> Some("reply")]))) }

\* Answers to POST first_move
FirstMoveBody(mv, message, board_state) ==
    [move |-> mv, message |-> message, board_state |-> board_state]
FirstMoveResponses(g) ==
    { Http("reject", FALSE, FirstMoveBody(<< >>, None, None)),
      Http("resolve", FALSE, FirstMoveBody(<< >>, None, None)),
      Http("resolve", TRUE, FirstMoveBody(<< >>, None, None)) }
    \cup { Http("resolve", TRUE, FirstMoveBody(getCoordinate(2, 2, 9), Some("hello"), None)) }
    \cup { Http("resolve", ok, FirstMoveBody(getCoordinate(2, 2, 9), None, Some(b))) :
             ok \in BOOLEAN, b \in DbBoards(g) }

\* Answers to GET chat: the history of a new game
ChatHistories == { << >> }

----------------------------------------------------------------------------
(* Page controller (Home) *)

FailedToStart == "Failed to start game. Make sure the backend server is running."
FailedFirstMove == "Failed to get first move from KataGo"
FailedToSubmit == "Failed to submit move"
FailedToSend == "Failed to send message"

IdleStart == [pc |-> "idle", config |-> None, newGame |-> None]
\* What a handler found when it was invoked (kept for observation only)
NoPrior == [messages |-> << >>, boardState |-> None, lastMoveCoord |-> << >>]
Prior ==
    IF track
    THEN [messages |-> messages, boardState |-> boardState, lastMoveCoord |-> lastMoveCoord]
    ELSE NoPrior
IdleMove == [pc |-> "idle", coordinate |-> << >>, userMsgId |-> 0, prior |-> NoPrior]
IdleCalc == [pc |-> "idle", size |-> 0, row |-> 0, col |-> 0, coord |-> << >>,
             board |-> None, page |-> None, star |-> FALSE]

\* A mutation of llmShouldMoveFirst: the user's colour alone decides.
llmShouldMoveFirstByColor(config) == config.userColor = "W"

llmShouldMoveFirst(config) ==
    \/ (config.handicap = 0 /\ config.userColor = "W")
    \/ (config.handicap > 0 /\ config.userColor = "B")

\* prev.filter(m => m.id !== userMsgId)
RECURSIVE FilterOutId(_, _)
FilterOutId(msgs, id) ==
    IF msgs = << >> THEN << >>
    ELSE IF Head(msgs).id # id THEN << Head(msgs) >> \o FilterOutId(Tail(msgs), id)
    ELSE FilterOutId(Tail(msgs), id)

\* The updater run when the send resolves: the optimistic entry is dropped
\* and written again, followed by the bot's reply (id Date.now() + 1).
Reconciled(prev, userMsgId, content, botContent, t) ==
    FilterOutId(prev, userMsgId)
        \o << ChatMsg(userMsgId, "user", content), ChatMsg(t + 1, "assistant", botContent) >>

\* row.some(cell => cell !== '.')
HasStone(row) == \E c \in 1..Len(row.cells) : row.cells[c] # "."

\* The console.log lines before the merge call board[0].join and
\* board.some(row => row.some(...)); they raise a TypeError at a row that is
\* not an array, unless some() has already stopped at a row with a stone.
LogRaises(board) ==
    \/ ~board[1].array
    \/ \E i \in 1..Len(board) :
          /\ ~board[i].array
          /\ \A j \in 1..(i - 1) : board[j].array /\ ~HasStone(board[j])

\* A mutation of MergeKataGo: the metadata is always taken from the game.
MergeKataGoFromGame(prev, g, kataGoBoard) ==
    [board_size |-> kataGoBoard.board_size, komi |-> g.komi, user_color |-> g.user_color,
     ai_color |-> g.ai_color, game_over |-> g.game_over, board |-> kataGoBoard.board,
     moves |-> IF prev = None THEN << >> ELSE prev[1].moves]

\* The updater setBoardState(prev => ...) of both handlers; a || b takes b
\* when a is falsy (0, "", false, undefined).
MergeKataGo(prev, g, kataGoBoard) ==
    [board_size |-> kataGoBoard.board_size,
     komi       |-> IF prev = None \/ prev[1].komi = 0 THEN g.komi ELSE prev[1].komi,
     user_color |-> IF prev = None \/ prev[1].user_color = "" THEN g.user_color ELSE prev[1].user_color,
     ai_color   |-> IF prev = None \/ prev[1].ai_color = "" THEN g.ai_color ELSE prev[1].ai_color,
     game_over  |-> IF prev = None \/ ~prev[1].game_over THEN g.game_over ELSE prev[1].game_over,
     board      |-> kataGoBoard.board,
     moves      |-> IF prev = None THEN << >> ELSE prev[1].moves]

\* The guard at the entry of handleCellClick (GoBoard)
CellClickBlocked == isSubmitting
\* The guard at the entry of handleMoveSubmit
MoveSubmitBlocked == game = None \/ isSubmitting
\* A mutation of MoveRejected: the in-flight flag is not consulted.
MoveRejectedNoFlag == game = None
\* A click reaches handleMoveSubmit through handleCellClick: it is dropped
\* when either guard returns early.
MoveRejected == CellClickBlocked \/ MoveSubmitBlocked
\* The guard at the entry of Chat.handleSubmit (the input is not blank)
ChatFormBlocked == isSubmitting \/ isThinking
\* The guard at the entry of handleChatMessage
ChatMessageBlocked == game = None \/ isSubmitting \/ isThinking
ChatRejectedByThinking == game = None \/ isThinking
\* A submitted chat form reaches handleChatMessage through Chat.handleSubmit.
ChatRejected == ChatFormBlocked \/ ChatMessageBlocked

\* The render of the game view raises a TypeError when GoBoard meets a row
\* that is not an array (row.join, row.map) or Chat a content that is not a
\* string (content.split).  The setup form, shown while there is no game,
\* reads neither.
RenderRaises ==
    /\ game # None
    /\ \/ /\ boardState # None
          /\ \E r \in 1..Len(boardState[1].board) : ~boardState[1].board[r].array
       \/ \E i \in 1..Len(messages) : messages[i].content = Undefined

\* The render that follows the state updates of a step: a render that
\* raises unmounts Home for good (there is no error boundary).
Render == drawn' = ~RenderRaises'

\* Home is drawn, and with it the setup form or the game view
PageRendered == drawn
\* GoBoard draws the grid (and takes clicks and pointer moves) once there is
\* a board state.
BoardRendered == drawn /\ game # None /\ boardState # None

\* The state after the first render of Home
InitController ==
    /\ game = None
    /\ boardState = None
    /\ messages = << >>
    /\ isSubmitting = FALSE
    /\ isThinking = FALSE
    /\ previewCoord = << >>
    /\ error = ""
    /\ pendingMove = None
    /\ lastMoveCoord = << >>
    /\ now = 0
    /\ start = IdleStart
    /\ move = IdleMove
    /\ chats = << >>
    /\ lastOp = ""
    /\ hoverCoord = << >>
    /\ drawn = TRUE

Init ==
    /\ InitController
    /\ calc = IdleCalc
    /\ track = FALSE

\* Time passes between events.
Tick ==
    /\ now < MaxClock
    /\ now' = now + 1
    /\ UNCHANGED << ui, start, move, chats, lastOp, fixed, drawn >>

(* startGame *)

\* The setup form is shown while there is no game; its button is disabled
\* while isSubmitting.
StartGame(config) ==
    /\ drawn
    /\ game = None /\ ~isSubmitting
    /\ isSubmitting' = TRUE
    /\ error' = ""
    /\ start' = [pc |-> "createGame", config |-> Some(config), newGame |-> None]
    /\ lastOp' = ""
    /\ UNCHANGED << game, boardState, messages, isThinking, previewCoord, pendingMove,
                    lastMoveCoord, now, move, chats, fixed >>
    /\ Render

CreateGameReturn(resp) ==
    /\ drawn
    /\ start.pc = "createGame"
    /\ LET r == returnJson(resp)
           config == start.config[1]
       IN  IF r.threw
           THEN /\ error' = FailedToStart
                /\ isSubmitting' = FALSE
                /\ start' = IdleStart
                /\ lastOp' = ""
                /\ UNCHANGED << game, messages, isThinking >>
           ELSE /\ game' = r.value
                /\ IF llmShouldMoveFirst(config)
                   THEN /\ messages' = << ChatMsg(now, "assistant", Text("...")) >>
                        /\ isThinking' = TRUE
                        /\ start' = [start EXCEPT !.pc = "getFirstMove", !.newGame = r.value]
                   ELSE /\ start' = [start EXCEPT !.pc = "getGameBoard", !.newGame = r.value]
                        /\ UNCHANGED << messages, isThinking >>
                /\ lastOp' = ""
                /\ UNCHANGED << error, isSubmitting >>
    /\ UNCHANGED << boardState, previewCoord, pendingMove, lastMoveCoord, now, move, chats, fixed >>
    /\ Render

FirstMoveReturn(resp) ==
    /\ drawn
    /\ start.pc = "getFirstMove"
    /\ LET r == returnJson(resp)
       IN  IF r.threw
           THEN /\ error' = FailedFirstMove
                /\ messages' = << >>
                /\ lastOp' = ""
                /\ UNCHANGED << boardState, lastMoveCoord >>
           ELSE LET res == r.value[1]
                IN  /\ IF res.move # << >>
                       THEN /\ messages' = << ChatMsg(now, "assistant",
                                   IF res.message # None THEN Text(res.message[1])
                                   ELSE IPlay(res.move)) >>
                            /\ boardState' = IF res.board_state # None THEN res.board_state
                                             ELSE boardState
                            /\ lastMoveCoord' = res.move
                       ELSE /\ messages' = << >>
                            /\ UNCHANGED << boardState, lastMoveCoord >>
                    /\ lastOp' = ""
                    /\ UNCHANGED error
    /\ isThinking' = FALSE
    /\ isSubmitting' = FALSE
    /\ start' = IdleStart
    /\ UNCHANGED << game, previewCoord, pendingMove, now, move, chats, fixed >>
    /\ Render

InitialBoardReturn(resp) ==
    /\ drawn
    /\ start.pc = "getGameBoard"
    /\ LET r == returnJson(resp)
       IN  IF r.threw
           THEN /\ error' = FailedToStart
                /\ isSubmitting' = FALSE
                /\ start' = IdleStart
                /\ lastOp' = ""
                /\ UNCHANGED boardState
           ELSE /\ boardState' = r.value
                /\ start' = [start EXCEPT !.pc = "getChatMessages"]
                /\ lastOp' = ""
                /\ UNCHANGED << error, isSubmitting >>
    /\ UNCHANGED << game, messages, isThinking, previewCoord, pendingMove, lastMoveCoord,
                    now, move, chats, fixed >>
    /\ Render

ChatHistoryReturn(resp) ==
    /\ drawn
    /\ start.pc = "getChatMessages"
    /\ LET r == returnJson(resp)
       IN  IF r.threw
           THEN /\ error' = FailedToStart
                /\ lastOp' = ""
                /\ UNCHANGED messages
           ELSE /\ messages' = r.value[1]
                /\ lastOp' = ""
                /\ UNCHANGED error
    /\ isSubmitting' = FALSE
    /\ start' = IdleStart
    /\ UNCHANGED << game, boardState, isThinking, previewCoord, pendingMove, lastMoveCoord,
                    now, move, chats, fixed >>
    /\ Render

(* handleMoveSubmit *)

\* A mutation of LastMoveAfter: the marker always goes to the user's move.
LastMoveAfterOwnMove(result, coordinate) == coordinate

\* The coordinate the last-move marker goes to when submitMove has resolved:
\* result.ai_move unless it is falsy (absent, null, "")
LastMoveAfter(result, coordinate) ==
    IF result.ai_move # << >> THEN result.ai_move ELSE coordinate

\* catch and finally of handleMoveSubmit
MoveCatchFinally ==
    /\ error' = FailedToSubmit
    /\ messages' = FilterOutId(messages, move.userMsgId)
    /\ isSubmitting' = FALSE
    /\ isThinking' = FALSE
    /\ pendingMove' = None
    /\ move' = IdleMove

\* A mutation of MoveFinally: the ghost stone is not cleared.
MoveFinallyKeepsGhost ==
    /\ isSubmitting' = FALSE
    /\ isThinking' = FALSE
    /\ pendingMove' = pendingMove
    /\ move' = IdleMove

\* finally of handleMoveSubmit after a try block that ran to its end
MoveFinally ==
    /\ isSubmitting' = FALSE
    /\ isThinking' = FALSE
    /\ pendingMove' = None
    /\ move' = IdleMove

\* The bounds test of the overlay's onClick and onMouseMove
OnGrid(row, col) ==
    /\ row >= 0 /\ row < boardState[1].board_size
    /\ col >= 0 /\ col < boardState[1].board_size

\* A click on the intersection (row, col) of the rendered board; a click of
\* the overlay that is off the grid calls nothing.
CellClick(row, col) ==
    /\ drawn
    /\ game # None /\ BoardRendered
    /\ OnGrid(row, col)
    /\ IF MoveRejected
       THEN /\ lastOp' = "move.blocked"
            /\ UNCHANGED << ui, move >>
       ELSE LET coordinate == getCoordinate(row, col, boardState[1].board_size)
                rc == pageParseCoordinate(coordinate, game[1].board_size)
                userMsgId == now
            IN  /\ Len(messages) <= MaxMsgs
                /\ previewCoord' = << >>
                /\ error' = ""
                /\ pendingMove' = Some([row |-> rc.row, col |-> rc.col, color |-> game[1].user_color])
                /\ messages' = Append(messages, ChatMsg(userMsgId, "user", MyMove(coordinate)))
                /\ isSubmitting' = TRUE
                /\ isThinking' = TRUE
                /\ move' = [pc |-> "submitMove", coordinate |-> coordinate, userMsgId |-> userMsgId,
                            prior |-> Prior]
                /\ lastOp' = ""
                /\ UNCHANGED << game, boardState, lastMoveCoord >>
    /\ UNCHANGED << now, start, chats, fixed >>
    /\ Render

SubmitMoveReturn(resp) ==
    /\ drawn
    /\ move.pc = "submitMove"
    /\ LET r == returnJson(resp)
       IN  IF r.threw
           THEN /\ MoveCatchFinally
                /\ lastOp' = ""
                /\ UNCHANGED << game, boardState, previewCoord, lastMoveCoord >>
           ELSE LET result == r.value[1]
                    \* a body without bot_response gives the content undefined
                    botContent == IF result.bot_response = None THEN Undefined
                                  ELSE result.bot_response[1]
                IN  /\ messages' = Reconciled(messages, move.userMsgId, MyMove(move.coordinate),
                                              botContent, now)
                    /\ lastMoveCoord' = LastMoveAfter(result, move.coordinate)
                    /\ move' = [move EXCEPT !.pc = "getKataGoBoardState"]
                    /\ lastOp' = ""
                    /\ UNCHANGED << game, boardState, isSubmitting, isThinking, previewCoord,
                                    error, pendingMove >>
    /\ UNCHANGED << now, start, chats, fixed >>
    /\ Render

MoveEngineReturn(resp) ==
    /\ drawn
    /\ move.pc = "getKataGoBoardState"
    /\ LET kataGoBoard == getKataGoBoardState(resp)
       IN  IF kataGoBoard # None /\ Len(kataGoBoard[1].board) > 0
           THEN IF LogRaises(kataGoBoard[1].board)
                THEN /\ MoveCatchFinally
                     /\ lastOp' = ""
                     /\ UNCHANGED boardState
                ELSE /\ boardState' = Some(MergeKataGo(boardState, game[1], kataGoBoard[1]))
                     /\ MoveFinally
                     /\ lastOp' = ""
                     /\ UNCHANGED << messages, error >>
           ELSE /\ move' = [move EXCEPT !.pc = "getGameBoard"]
                /\ lastOp' = ""
                /\ UNCHANGED << boardState, messages, isSubmitting, isThinking, error, pendingMove >>
    /\ UNCHANGED << game, previewCoord, lastMoveCoord, now, start, chats, fixed >>
    /\ Render

MoveBoardReturn(resp) ==
    /\ drawn
    /\ move.pc = "getGameBoard"
    /\ LET r == returnJson(resp)
       IN  IF r.threw
           THEN /\ MoveCatchFinally
                /\ lastOp' = ""
                /\ UNCHANGED boardState
           ELSE /\ boardState' = r.value
                /\ MoveFinally
                /\ lastOp' = ""
                /\ UNCHANGED << messages, error >>
    /\ UNCHANGED << game, previewCoord, lastMoveCoord, now, start, chats, fixed >>
    /\ Render

(* handleChatMessage *)

\* The texts the user types in the model
ChatInputs == { Text("hi") }

\* chats without its k-th invocation
RemoveAt(seq, k) == SubSeq(seq, 1, k - 1) \o SubSeq(seq, k + 1, Len(seq))

\* catch and finally of handleChatMessage, for invocation k
ChatCatchKeepsEntry(k) ==
    /\ error' = FailedToSend
    /\ messages' = messages
    /\ isThinking' = FALSE
    /\ chats' = RemoveAt(chats, k)

ChatCatchFinally(k) ==
    /\ error' = FailedToSend
    /\ messages' = FilterOutId(messages, chats[k].userMsgId)
    /\ isThinking' = FALSE
    /\ chats' = RemoveAt(chats, k)

\* finally of handleChatMessage after a try block that ran to its end
ChatFinally(k) ==
    /\ isThinking' = FALSE
    /\ chats' = RemoveAt(chats, k)

\* String(result.bot_message || "...") when the content is not a string
BotContent(result) ==
    IF result.bot_message = None THEN Text("...")
    ELSE IF result.bot_message[1].content = None THEN Text("[object Object]")
    ELSE Text(result.bot_message[1].content[1])

\* The chat form is submitted with a text that is not blank
ChatSubmit(content) ==
    /\ drawn
    /\ game # None /\ PageRendered
    /\ IF ChatRejected
       THEN /\ lastOp' = "chat.blocked"
            /\ UNCHANGED << ui, chats >>
       ELSE     /\ Len(chats) < MaxChats
                /\ Len(messages) <= MaxMsgs
                /\ error' = ""
                /\ messages' = Append(messages, ChatMsg(now, "user", content))
                /\ isThinking' = TRUE
                /\ chats' = Append(chats, [pc |-> "sendChatMessage", content |-> content,
                                           userMsgId |-> now, prior |-> Prior])
                /\ lastOp' = ""
                /\ UNCHANGED << game, boardState, isSubmitting, previewCoord, pendingMove,
                                lastMoveCoord >>
    /\ UNCHANGED << now, start, move, fixed >>
    /\ Render

SendChatReturn(k, resp) ==
    /\ drawn
    /\ k \in 1..Len(chats) /\ chats[k].pc = "sendChatMessage"
    /\ LET r == sendChatMessage(resp)
       IN  IF r.threw
           THEN /\ ChatCatchFinally(k)
                /\ lastOp' = ""
           ELSE /\ messages' = Reconciled(messages, chats[k].userMsgId, chats[k].content,
                                          BotContent(r.value[1]), now)
                /\ chats' = [chats EXCEPT ![k].pc = "getKataGoBoardState"]
                /\ lastOp' = ""
                /\ UNCHANGED << isThinking, error >>
    /\ UNCHANGED << game, boardState, isSubmitting, previewCoord, pendingMove, lastMoveCoord,
                    now, start, move, fixed >>
    /\ Render

ChatEngineReturn(k, resp) ==
    /\ drawn
    /\ chats[k].pc = "getKataGoBoardState"
    /\ LET kataGoBoard == getKataGoBoardState(resp)
       IN  IF kataGoBoard # None /\ Len(kataGoBoard[1].board) > 0
           THEN IF LogRaises(kataGoBoard[1].board)
                THEN /\ ChatCatchFinally(k)
                     /\ lastOp' = ""
                     /\ UNCHANGED boardState
                ELSE /\ boardState' = Some(MergeKataGo(boardState, game[1], kataGoBoard[1]))
                     /\ ChatFinally(k)
                     /\ lastOp' = ""
                     /\ UNCHANGED << messages, error >>
           ELSE /\ chats' = [chats EXCEPT ![k].pc = "getGameBoard"]
                /\ lastOp' = ""
                /\ UNCHANGED << boardState, messages, isThinking, error >>
    /\ UNCHANGED << game, isSubmitting, previewCoord, pendingMove, lastMoveCoord,
                    now, start, move, fixed >>
    /\ Render

ChatBoardReturn(k, resp) ==
    /\ drawn
    /\ chats[k].pc = "getGameBoard"
    /\ LET r == returnJson(resp)
       IN  IF r.threw
           THEN /\ ChatCatchFinally(k)
                /\ lastOp' = ""
                /\ UNCHANGED boardState
           ELSE /\ boardState' = r.value
                /\ ChatFinally(k)
                /\ lastOp' = ""
                /\ UNCHANGED << messages, error >>
    /\ UNCHANGED << game, isSubmitting, previewCoord, pendingMove, lastMoveCoord,
                    now, start, move, fixed >>
    /\ Render

----------------------------------------------------------------------------
(* The controller and its environment *)

CreateGameResponses(config) ==
    { Http("reject", FALSE, CreatedGame(config)), Http("resolve", TRUE, CreatedGame(config)),
      Http("resolve", FALSE, CreatedGame(config)) }

BoardResponses(g) ==
    { Http("reject", FALSE, DbBoard(g, FALSE, << >>, << >>)) }
        \cup { Http("resolve", ok, b) : ok \in BOOLEAN, b \in DbBoards(g) }

HistoryResponses ==
    { Http("reject", FALSE, << >>) }
        \cup { Http("resolve", ok, h) : ok \in BOOLEAN, h \in ChatHistories }

\* A call returns only while it is awaited, with one of the answers its
\* endpoint can give.
CreateGameReturns ==
    /\ start.pc = "createGame"
    /\ \E resp \in CreateGameResponses(start.config[1]) : CreateGameReturn(resp)
FirstMoveReturns ==
    /\ start.pc = "getFirstMove"
    /\ \E resp \in FirstMoveResponses(start.newGame[1]) : FirstMoveReturn(resp)
InitialBoardReturns ==
    /\ start.pc = "getGameBoard"
    /\ \E resp \in BoardResponses(start.newGame[1]) : InitialBoardReturn(resp)
MoveEngineReturns ==
    /\ move.pc = "getKataGoBoardState"
    /\ \E resp \in EngineResponses(game[1].board_size) : MoveEngineReturn(resp)
MoveBoardReturns ==
    /\ move.pc = "getGameBoard"
    /\ \E resp \in BoardResponses(game[1]) : MoveBoardReturn(resp)
ChatEngineReturns ==
    \E k \in 1..Len(chats) :
        /\ chats[k].pc = "getKataGoBoardState"
        /\ \E resp \in EngineResponses(game[1].board_size) : ChatEngineReturn(k, resp)
ChatBoardReturns ==
    \E k \in 1..Len(chats) :
        /\ chats[k].pc = "getGameBoard"
        /\ \E resp \in BoardResponses(game[1]) : ChatBoardReturn(k, resp)

(* After a render has raised, Home is unmounted: nothing is drawn, no event
   reaches a handler, and the state setters of handlers still running have
   no effect.  Those handlers go on through their awaited calls. *)

\* getChatMessages returns to startGame after the unmount: the handler ends
UnmountedChatHistoryReturn ==
    /\ ~drawn /\ start.pc = "getChatMessages"
    /\ start' = IdleStart
    /\ lastOp' = ""
    /\ UNCHANGED << ui, now, move, chats, fixed, drawn >>

\* submitMove returns after the unmount
UnmountedSubmitMoveReturn(resp) ==
    /\ ~drawn /\ move.pc = "submitMove"
    /\ move' = IF returnJson(resp).threw THEN IdleMove
               ELSE [move EXCEPT !.pc = "getKataGoBoardState"]
    /\ lastOp' = ""
    /\ UNCHANGED << ui, now, start, chats, fixed, drawn >>

\* getKataGoBoardState returns to handleMoveSubmit after the unmount: the
\* handler ends (with or without a TypeError) or goes on to the database.
UnmountedMoveEngineReturn(resp) ==
    /\ ~drawn /\ move.pc = "getKataGoBoardState"
    /\ LET kataGoBoard == getKataGoBoardState(resp)
       IN  move' = IF kataGoBoard # None /\ Len(kataGoBoard[1].board) > 0
                   THEN IdleMove
                   ELSE [move EXCEPT !.pc = "getGameBoard"]
    /\ lastOp' = ""
    /\ UNCHANGED << ui, now, start, chats, fixed, drawn >>

\* getGameBoard returns to handleMoveSubmit after the unmount
UnmountedMoveBoardReturn ==
    /\ ~drawn /\ move.pc = "getGameBoard"
    /\ move' = IdleMove
    /\ lastOp' = ""
    /\ UNCHANGED << ui, now, start, chats, fixed, drawn >>

\* The call awaited by handleMoveSubmit returns after the unmount
UnmountedMoveReturns ==
    \/ \E resp \in SubmitResponses : UnmountedSubmitMoveReturn(resp)
    \/ /\ move.pc = "getKataGoBoardState"
       /\ \E resp \in EngineResponses(game[1].board_size) : UnmountedMoveEngineReturn(resp)
    \/ UnmountedMoveBoardReturn

\* sendChatMessage returns to the k-th handleChatMessage after the unmount
UnmountedSendChatReturn(k, resp) ==
    /\ ~drawn /\ k \in 1..Len(chats) /\ chats[k].pc = "sendChatMessage"
    /\ chats' = IF sendChatMessage(resp).threw THEN RemoveAt(chats, k)
                ELSE [chats EXCEPT ![k].pc = "getKataGoBoardState"]
    /\ lastOp' = ""
    /\ UNCHANGED << ui, now, start, move, fixed, drawn >>

\* getKataGoBoardState returns to it after the unmount
UnmountedChatEngineReturn(k, resp) ==
    /\ ~drawn /\ k \in 1..Len(chats) /\ chats[k].pc = "getKataGoBoardState"
    /\ LET kataGoBoard == getKataGoBoardState(resp)
       IN  chats' = IF kataGoBoard # None /\ Len(kataGoBoard[1].board) > 0
                    THEN RemoveAt(chats, k)
                    ELSE [chats EXCEPT ![k].pc = "getGameBoard"]
    /\ lastOp' = ""
    /\ UNCHANGED << ui, now, start, move, fixed, drawn >>

\* getGameBoard returns to it after the unmount
UnmountedChatBoardReturn(k) ==
    /\ ~drawn /\ k \in 1..Len(chats) /\ chats[k].pc = "getGameBoard"
    /\ chats' = RemoveAt(chats, k)
    /\ lastOp' = ""
    /\ UNCHANGED << ui, now, start, move, fixed, drawn >>

\* The call awaited by a handleChatMessage returns after the unmount
UnmountedChatReturns ==
    \E k \in 1..Len(chats) :
        \/ \E resp \in ChatResponses : UnmountedSendChatReturn(k, resp)
        \/ /\ chats[k].pc = "getKataGoBoardState"
           /\ \E resp \in EngineResponses(game[1].board_size) : UnmountedChatEngineReturn(k, resp)
        \/ UnmountedChatBoardReturn(k)

Next ==
    \/ Tick
    \/ \E config \in Configs : StartGame(config)
    \/ CreateGameReturns
    \/ FirstMoveReturns
    \/ InitialBoardReturns
    \/ \E resp \in HistoryResponses : ChatHistoryReturn(resp)
    \/ UnmountedChatHistoryReturn
    \/ \E cell \in ModelCells : CellClick(cell[1], cell[2])
    \/ \E resp \in SubmitResponses : SubmitMoveReturn(resp)
    \/ MoveEngineReturns
    \/ MoveBoardReturns
    \/ \E content \in ChatInputs : ChatSubmit(content)
    \/ \E k \in 1..Len(chats), resp \in ChatResponses : SendChatReturn(k, resp)
    \/ ChatEngineReturns
    \/ ChatBoardReturns
    \/ UnmountedMoveReturns
    \/ UnmountedChatReturns

Spec == Init /\ [][Next]_vars

----------------------------------------------------------------------------
(* The controller used by a user who waits for every answer, with each
   handler recording what it found when it was invoked.  Every behaviour of
   SpecPrior is, but for the record, a behaviour of Spec. *)

Quiet == move.pc = "idle" /\ chats = << >>

InitPrior ==
    /\ InitController
    /\ calc = IdleCalc
    /\ track = TRUE

NextPrior ==
    \/ Tick
    \/ \E config \in Configs : StartGame(config)
    \/ CreateGameReturns
    \/ FirstMoveReturns
    \/ InitialBoardReturns
    \/ \E resp \in HistoryResponses : ChatHistoryReturn(resp)
    \/ UnmountedChatHistoryReturn
    \/ Quiet /\ \E cell \in ModelCells : CellClick(cell[1], cell[2])
    \/ \E resp \in SubmitResponses : SubmitMoveReturn(resp)
    \/ MoveEngineReturns
    \/ MoveBoardReturns
    \/ Quiet /\ \E content \in ChatInputs : ChatSubmit(content)
    \/ \E k \in 1..Len(chats), resp \in ChatResponses : SendChatReturn(k, resp)
    \/ ChatEngineReturns
    \/ ChatBoardReturns
    \/ /\ move.pc = "getKataGoBoardState"
       /\ \E resp \in EngineResponses(game[1].board_size) : UnmountedMoveEngineReturn(resp)
    \/ UnmountedMoveBoardReturn

SpecPrior == InitPrior /\ [][NextPrior]_vars

----------------------------------------------------------------------------
(* startGame alone, for every configuration the setup form can assemble *)

AllConfigs ==
    { [boardSize |-> n, komi |-> GAME_TYPES[i].komi, handicap |-> GAME_TYPES[i].handicap,
       userColor |-> c] : n \in BoardSizes, i \in 1..Len(GAME_TYPES), c \in {"B", "W"} }

NextStart ==
    \/ Tick
    \/ \E config \in AllConfigs : StartGame(config)
    \/ CreateGameReturns
    \/ FirstMoveReturns
    \/ InitialBoardReturns
    \/ \E resp \in HistoryResponses : ChatHistoryReturn(resp)
    \/ UnmountedChatHistoryReturn

SpecStart == Init /\ [][NextStart]_vars

----------------------------------------------------------------------------
(* The coordinate functions on every intersection of every board size *)

InitCoord ==
    /\ InitController
    /\ track = FALSE
    /\ calc \in { [IdleCalc EXCEPT !.pc = "cell", !.size = n, !.row = r, !.col = c] :
                    n \in BoardSizes, r \in 0..18, c \in 0..18 }
    /\ calc.row < calc.size /\ calc.col < calc.size

\* GoBoard names the intersection under the pointer
FormatStep ==
    /\ calc.pc = "cell"
    /\ calc' = [calc EXCEPT !.pc = "coord", !.coord = getCoordinate(calc.row, calc.col, calc.size)]
    /\ UNCHANGED << ui, now, start, move, chats, lastOp, track, hoverCoord, drawn >>

\* GoBoard (for the marker) and the page (for the ghost stone) parse the name
ParseStep ==
    /\ calc.pc = "coord"
    /\ calc' = [calc EXCEPT !.pc = "parsed",
                            !.board = boardParseCoordinate(calc.coord, calc.size),
                            !.page = Some(pageParseCoordinate(calc.coord, calc.size))]
    /\ UNCHANGED << ui, now, start, move, chats, lastOp, track, hoverCoord, drawn >>

\* GoBoard decides whether the intersection is drawn as a star point
StarStep ==
    /\ calc.pc = "parsed"
    /\ calc' = [calc EXCEPT !.pc = "drawn",
                            !.star = renderStarPoints(calc.size)[calc.row][calc.col]]
    /\ UNCHANGED << ui, now, start, move, chats, lastOp, track, hoverCoord, drawn >>

NextCoord == FormatStep \/ ParseStep \/ StarStep

SpecCoord == InitCoord /\ [][NextCoord]_vars

----------------------------------------------------------------------------
(* Properties of the controller under concurrent use (Spec) *)

\* C1: a move submitted while a move submission is in flight (isSubmitting)
\* is a no-op: the messages, the board state and every other piece of
\* controller state are unchanged, the error banner is not set, and no
\* request is issued (no invocation starts or advances).
MoveWhileSubmittingIsNoOp ==
    [][(isSubmitting /\ \E cell \in ModelCells : CellClick(cell[1], cell[2]))
          => UNCHANGED << ui, start, move, chats >>]_vars

\* A click has just been dropped while the submit-move call was awaited.
MoveWhileSubmittingDropped ==
    lastOp = "move.blocked" /\ isSubmitting /\ move.pc = "submitMove"

\* C2: a chat submitted while an earlier move or chat request has not
\* resolved is a no-op, so at most one chat send is ever outstanding.
ChatWhileOutstandingIsNoOp ==
    [][((move.pc # "idle" \/ Len(chats) > 0)
          /\ \E content \in ChatInputs : ChatSubmit(content))
         => (UNCHANGED << ui, start, move, chats >> /\ Len(chats') <= 1)]_vars

\* C3: when the submit-move call rejects, the banner reads "Failed to submit
\* move" and the message list loses exactly the optimistic entry of this
\* invocation, every other entry staying in place.
MoveFailureRemovesOnlyOptimistic ==
    [][(\E resp \in SubmitResponses : resp.fetch = "reject" /\ SubmitMoveReturn(resp))
          => /\ error' = FailedToSubmit
             /\ \E i \in 1..Len(messages) :
                  /\ messages[i] = ChatMsg(move.userMsgId, "user", MyMove(move.coordinate))
                  /\ messages' = RemoveAt(messages, i)]_vars

\* C7: in every state in which a move or chat request is outstanding,
\* isSubmitting or isThinking is true and isThinking is still true.
ThinkingWhileOutstanding ==
    (move.pc # "idle" \/ Len(chats) > 0) => ((isSubmitting \/ isThinking) /\ isThinking)

\* C5: when the send of a move or chat has resolved and the engine fetch
\* returns a non-empty grid of rows, the new board state takes the grid and
\* board_size (the number of rows when the answer states no size) from the
\* engine's answer and komi, user_color, ai_color and
\* game_over from the board state before it (from the game when there was
\* none); when the engine fetch returns null the database board is fetched
\* and, once it arrives, replaces the board state wholesale.
BoardRefreshAfterSend ==
    [][LET Carried(field) == IF boardState = None THEN game[1][field] ELSE boardState[1][field]
           WellFormed(resp) ==
               /\ getKataGoBoardState(resp) # None
               /\ \A r \in 1..Len(resp.body.result[1].board[1].rows) :
                      resp.body.result[1].board[1].rows[r].array
           Merged(resp) ==
               /\ boardState' # None
               /\ boardState'[1].board_size =
                      IF resp.body.result[1].board_size # 0
                      THEN resp.body.result[1].board_size
                      ELSE Len(resp.body.result[1].board[1].rows)
               /\ boardState'[1].board = resp.body.result[1].board[1].rows
               /\ boardState'[1].komi = Carried("komi")
               /\ boardState'[1].user_color = Carried("user_color")
               /\ boardState'[1].ai_color = Carried("ai_color")
               /\ boardState'[1].game_over = Carried("game_over")
           \* the step ends or advances the k-th running chat handler
           Advanced(k) ==
               \/ Len(chats') < Len(chats)
               \/ Len(chats') = Len(chats) /\ chats'[k] # chats[k]
       IN  /\ (move.pc = "getKataGoBoardState" /\ move' # move) =>
                \A resp \in EngineResponses(game[1].board_size) :
                    /\ WellFormed(resp) =>
                          (MoveEngineReturn(resp) => Merged(resp) /\ move'.pc = "idle")
                    /\ getKataGoBoardState(resp) = None =>
                          (MoveEngineReturn(resp) =>
                              move'.pc = "getGameBoard" /\ UNCHANGED boardState)
           /\ (move.pc = "getGameBoard" /\ move' # move) =>
                \A resp \in BoardResponses(game[1]) :
                    (resp.fetch = "resolve" /\ MoveBoardReturn(resp)) =>
                        boardState' = Some(resp.body)
           /\ chats' # chats =>
                \A k \in 1..Len(chats) :
                    /\ (chats[k].pc = "getKataGoBoardState" /\ Advanced(k)) =>
                         \A resp \in EngineResponses(game[1].board_size) :
                             /\ WellFormed(resp) =>
                                   (ChatEngineReturn(k, resp) =>
                                       Merged(resp) /\ chats' = RemoveAt(chats, k))
                             /\ getKataGoBoardState(resp) = None =>
                                   (ChatEngineReturn(k, resp) =>
                                       chats'[k].pc = "getGameBoard" /\ UNCHANGED boardState)
                    /\ (chats[k].pc = "getGameBoard" /\ Advanced(k)) =>
                         \A resp \in BoardResponses(game[1]) :
                             (resp.fetch = "resolve" /\ ChatBoardReturn(k, resp)) =>
                                 boardState' = Some(resp.body)]_vars

\* The engine's grid has been merged into a board state whose game_over
\* flag differs from the game's.
EngineGridMerged ==
    /\ game # None /\ boardState # None
    /\ boardState[1].board = EngineGrid(game[1].board_size)
    /\ boardState[1].game_over /\ ~game[1].game_over
    /\ boardState[1].moves = OneMove

\* C6: the engine fetch never makes a handler fail: an answer that is a
\* network error, a failed status, without envelope or with a malformed grid
\* (rows that are not arrays included) comes back as null, and a value that
\* is not null is merged without an error being raised.
EngineFetchNeverFaults ==
    [][LET Malformed(resp) ==
               \/ resp.fetch = "reject" \/ ~resp.ok \/ resp.body.result = None
               \/ resp.body.result[1].board = None
               \/ ~resp.body.result[1].board[1].array
               \/ Len(resp.body.result[1].board[1].rows) = 0
               \/ \E r \in 1..Len(resp.body.result[1].board[1].rows) :
                      ~resp.body.result[1].board[1].rows[r].array
       IN  /\ move.pc = "getKataGoBoardState" =>
                \A resp \in EngineResponses(game[1].board_size) :
                    MoveEngineReturn(resp) =>
                        /\ error' = error
                        /\ Malformed(resp) => getKataGoBoardState(resp) = None
           /\ \A k \in 1..Len(chats) :
                chats[k].pc = "getKataGoBoardState" =>
                    \A resp \in EngineResponses(game[1].board_size) :
                        ChatEngineReturn(k, resp) =>
                            /\ error' = error
                            /\ Malformed(resp) => getKataGoBoardState(resp) = None]_vars

----------------------------------------------------------------------------
(* Properties of the controller under sequential use (SpecPrior) *)

\* C4: when a call of handleMoveSubmit or handleChatMessage fails on the
\* network (the send, or the database board fetch), the banner is set and
\* the messages, the board state and the last-move coordinate are what they
\* were when the handler was invoked.
FailureRestoresPriorState ==
    [][LET Restored(prior) ==
               /\ error' # ""
               /\ messages' = prior.messages
               /\ boardState' = prior.boardState
               /\ lastMoveCoord' = prior.lastMoveCoord
       IN  /\ (\E resp \in SubmitResponses : resp.fetch = "reject" /\ SubmitMoveReturn(resp))
                => Restored(move.prior)
           /\ move.pc = "getGameBoard" =>
                \A resp \in BoardResponses(game[1]) :
                    (resp.fetch = "reject" /\ MoveBoardReturn(resp)) => Restored(move.prior)
           /\ \A k \in 1..Len(chats) :
                /\ \A resp \in ChatResponses :
                     (resp.fetch = "reject" /\ SendChatReturn(k, resp)) => Restored(chats[k].prior)
                /\ chats[k].pc = "getGameBoard" =>
                     \A resp \in BoardResponses(game[1]) :
                         (resp.fetch = "reject" /\ ChatBoardReturn(k, resp))
                             => Restored(chats[k].prior)]_vars

----------------------------------------------------------------------------
(* Properties of startGame (SpecStart) *)

\* C8: llmShouldMoveFirst is true exactly when (handicap = 0 and the user
\* plays W) or (handicap > 0 and the user plays B); the first move is
\* requested if and only if it is true, and otherwise the initial board and
\* then the chat history are fetched and no first move is requested.
EngineMovesFirstExactly ==
    [][LET Cond(config) ==
               \/ config.handicap = 0 /\ config.userColor = "W"
               \/ config.handicap > 0 /\ config.userColor = "B"
       IN  /\ (start.pc = "createGame" /\ start'.pc \notin {"createGame", "idle"}) =>
                /\ llmShouldMoveFirst(start.config[1]) = Cond(start.config[1])
                /\ (start'.pc = "getFirstMove") = Cond(start.config[1])
                /\ (start'.pc = "getGameBoard") = ~Cond(start.config[1])
           /\ (start.pc = "getGameBoard" /\ start'.pc \notin {"getGameBoard", "idle"}) =>
                start'.pc = "getChatMessages"
           /\ (start.pc # "getFirstMove" /\ start'.pc = "getFirstMove") =>
                start.pc = "createGame" /\ Cond(start.config[1])
           /\ (start.pc # "getChatMessages" /\ start'.pc = "getChatMessages") =>
                start.pc = "getGameBoard" /\ ~Cond(start.config[1])]_vars

\* A handicap game in which the user plays W has fetched its initial board
\* and awaits the chat history.
HandicapWhiteFetchesBoard ==
    /\ start.pc = "getChatMessages"
    /\ start.config[1].handicap > 0 /\ start.config[1].userColor = "W"
    /\ boardState # None

----------------------------------------------------------------------------
(* Properties of the coordinate functions (SpecCoord) *)

\* C9: on sizes 9, 13 and 19 the board's parseCoordinate gives back the
\* (row, col) that getCoordinate was given, and the letter of a coordinate
\* is never 'I': column 8 is 'J'.
CoordinateRoundTrip ==
    /\ calc.pc \in {"coord", "parsed"} =>
          /\ calc.coord[1] # 73
          /\ calc.col = 8 => calc.coord[1] = 74
    /\ calc.pc = "parsed" => calc.board = Some([row |-> calc.row, col |-> calc.col])

\* Column 8 of a 19x19 board has been named and parsed back.
ColumnEightRoundTrip ==
    /\ calc.pc = "parsed" /\ calc.size = 19 /\ calc.col = 8 /\ calc.row = 18
    /\ calc.coord = << 74, 49 >>
    /\ calc.board = Some([row |-> 18, col |-> 8])

\* C10: a coordinate parses to row = board_size - number and col = the index
\* of its letter in ABCDEFGHJKLMNOPQRST ("Q16" on 19 is (3, 15)), by the
\* page's parseCoordinate and by the board's alike, for every coordinate
\* getCoordinate produces on sizes 9, 13 and 19.
ParsersAgreeOnBoardCoordinates ==
    LET Letters == << 65, 66, 67, 68, 69, 70, 71, 72, 74, 75, 76, 77, 78, 79, 80, 81, 82, 83, 84 >>
        Q16 == << 81, 49, 54 >>
    IN  /\ calc.pc = "parsed" =>
              LET number == CHOOSE n \in 1..19 : NumberToString(n) = Tail(calc.coord)
                  index == (CHOOSE i \in 1..19 : Letters[i] = calc.coord[1]) - 1
              IN  /\ calc.board = Some([row |-> calc.size - number, col |-> index])
                  /\ calc.page = Some([row |-> Some(calc.size - number), col |-> index])
        /\ boardParseCoordinate(Q16, 19) = Some([row |-> 3, col |-> 15])
        /\ pageParseCoordinate(Q16, 19) = [row |-> Some(3), col |-> 15]

\* "Q16" has been produced on a 19x19 board and parsed by the page.
Q16Parsed ==
    /\ calc.pc = "parsed" /\ calc.size = 19
    /\ calc.coord = << 81, 49, 54 >>
    /\ calc.page = Some([row |-> Some(3), col |-> 15])

\* C11: the star points are (3,3),(3,9),(3,15),(9,3),(9,9),(9,15),(15,3),
\* (15,9),(15,15) on size 19, (3,3),(3,9),(9,3),(9,9) on size 13 and
\* (2,2),(2,6),(6,2),(6,6),(4,4) on size 9; no other cell is a star point.
StarPointsExactly ==
    LET Stars19 == { <<3, 3>>, <<3, 9>>, <<3, 15>>, <<9, 3>>, <<9, 9>>, <<9, 15>>,
                     <<15, 3>>, <<15, 9>>, <<15, 15>> }
        Stars13 == { <<3, 3>>, <<3, 9>>, <<9, 3>>, <<9, 9>> }
        Stars9 == { <<2, 2>>, <<2, 6>>, <<6, 2>>, <<6, 6>>, <<4, 4>> }
        Expected == IF calc.size = 19 THEN Stars19
                    ELSE IF calc.size = 13 THEN Stars13 ELSE Stars9
    IN  calc.pc = "drawn" => (calc.star <=> << calc.row, calc.col >> \in Expected)

\* The centre of the 9x9 board has been drawn as a star point.
CentreStarDrawn ==
    calc.pc = "drawn" /\ calc.size = 9 /\ calc.row = 4 /\ calc.col = 4 /\ calc.star

----------------------------------------------------------------------------
(* Properties of the API client within the controller (Spec) *)

\* C12: a non-success answer makes sendChatMessage raise, and
\* handleChatMessage then removes its optimistic entry and sets the banner;
\* the same status makes createGame, getGameBoard, submitMove,
\* getChatMessages and getFirstMove return the body, and their callers go on
\* with it.
OnlyChatSendChecksStatus ==
    [][LET Failed(resp) == resp.fetch = "resolve" /\ ~resp.ok
           Advanced(k) ==
               \/ Len(chats') < Len(chats)
               \/ Len(chats') = Len(chats) /\ chats'[k] # chats[k]
       IN  /\ chats' # chats =>
                \A k \in 1..Len(chats) :
                    /\ (chats[k].pc = "sendChatMessage" /\ Advanced(k)) =>
                         \A resp \in ChatResponses :
                             (Failed(resp) /\ SendChatReturn(k, resp)) =>
                                 /\ sendChatMessage(resp).threw
                                 /\ error' = FailedToSend
                                 /\ chats' = RemoveAt(chats, k)
                                 /\ \A i \in 1..Len(messages') :
                                        messages'[i] # ChatMsg(chats[k].userMsgId, "user",
                                                               chats[k].content)
                    /\ (chats[k].pc = "getGameBoard" /\ Advanced(k)) =>
                         \A resp \in BoardResponses(game[1]) :
                             (Failed(resp) /\ ChatBoardReturn(k, resp)) =>
                                 boardState' = Some(resp.body) /\ error' = error
           /\ move' # move =>
                /\ \A resp \in SubmitResponses :
                       (Failed(resp) /\ SubmitMoveReturn(resp)) =>
                           /\ returnJson(resp) = Returned(resp.body)
                           /\ move'.pc = "getKataGoBoardState" /\ error' = error
                /\ move.pc = "getGameBoard" =>
                       \A resp \in BoardResponses(game[1]) :
                           (Failed(resp) /\ MoveBoardReturn(resp)) =>
                               boardState' = Some(resp.body) /\ error' = error
           /\ start' # start =>
                /\ start.pc = "createGame" =>
                       \A resp \in CreateGameResponses(start.config[1]) :
                           (Failed(resp) /\ CreateGameReturn(resp)) =>
                               game' = Some(resp.body) /\ error' = error
                /\ start.pc = "getFirstMove" =>
                       \A resp \in FirstMoveResponses(start.newGame[1]) :
                           (Failed(resp) /\ FirstMoveReturn(resp)) =>
                               /\ error' = error
                               /\ resp.body.move # << >> => lastMoveCoord' = resp.body.move
                /\ start.pc = "getGameBoard" =>
                       \A resp \in BoardResponses(start.newGame[1]) :
                           (Failed(resp) /\ InitialBoardReturn(resp)) =>
                               boardState' = Some(resp.body) /\ error' = error
                /\ \A resp \in HistoryResponses :
                       (Failed(resp) /\ ChatHistoryReturn(resp)) =>
                           messages' = resp.body /\ error' = error]_vars

\* A chat send has just been rolled back while a move's first request,
\* whose handler is not affected, is still awaited.
ChatSendRolledBack ==
    /\ error = FailedToSend /\ chats = << >> /\ messages # << >>
    /\ move.pc = "submitMove"
    /\ \A i \in 1..Len(messages) : messages[i].content # Text("hi")

----------------------------------------------------------------------------
(* Further properties of startGame (SpecStart) *)

\* C13: when the engine moves first, one placeholder assistant message is
\* shown and isThinking set while the first move is requested; a successful
\* answer with a move leaves exactly one assistant message (the answer's
\* message, or "I play <move>"), the answer's board state as the board state
\* and the move as lastMoveCoord; a failed request (a rejected fetch or a
\* non-success status) sets the banner and empties the list; isThinking and
\* isSubmitting are false when startGame has finished.
FirstMoveSequence ==
    [][/\ (start.pc = "createGame" /\ start'.pc = "getFirstMove") =>
              /\ messages' = << ChatMsg(now, "assistant", Text("...")) >>
              /\ isThinking'
       /\ (start.pc = "getFirstMove" /\ start' # start) =>
              \A resp \in FirstMoveResponses(start.newGame[1]) :
                  FirstMoveReturn(resp) =>
                      /\ (resp.fetch = "resolve" /\ resp.ok /\ resp.body.move # << >>) =>
                            /\ messages' = << ChatMsg(now, "assistant",
                                   IF resp.body.message # None
                                   THEN Text(resp.body.message[1])
                                   ELSE IPlay(resp.body.move)) >>
                            /\ boardState' # None
                            /\ boardState' = resp.body.board_state
                            /\ lastMoveCoord' = resp.body.move
                      /\ (resp.fetch = "reject" \/ ~resp.ok) =>
                            error' = FailedFirstMove /\ messages' = << >>
                      /\ ~isThinking' /\ ~isSubmitting' /\ start'.pc = "idle"]_vars

----------------------------------------------------------------------------
(* Properties of the message list and the markers (Spec) *)

\* C14: when the send of a move (of a chat) resolves, the list ends with
\* the user entry "My move: c" (the user's text) followed by the bot's
\* reply, that user entry occurs exactly once, and the entries before the
\* two are the former list without the optimistic entry, in the same order.
SendReplacesOptimisticEntry ==
    [][LET Replaced(user, botContent) ==
               LET n == Len(messages')
               IN  /\ n >= 2
                   /\ messages'[n - 1] = user
                   /\ messages'[n].role = "assistant" /\ messages'[n].content = botContent
                   /\ Cardinality({ i \in 1..n : messages'[i] = user }) = 1
                   /\ \E i \in 1..Len(messages) :
                          /\ messages[i] = user
                          /\ SubSeq(messages', 1, n - 2) = RemoveAt(messages, i)
           Advanced(k) ==
               \/ Len(chats') < Len(chats)
               \/ Len(chats') = Len(chats) /\ chats'[k] # chats[k]
       IN  /\ (move.pc = "submitMove" /\ move' # move) =>
                \A resp \in SubmitResponses :
                    (resp.fetch = "resolve" /\ SubmitMoveReturn(resp)) =>
                        Replaced(ChatMsg(move.userMsgId, "user", MyMove(move.coordinate)),
                                 resp.body.bot_response[1])
           /\ chats' # chats =>
                \A k \in 1..Len(chats) :
                    (chats[k].pc = "sendChatMessage" /\ Advanced(k)) =>
                        \A resp \in ChatResponses :
                            (resp.fetch = "resolve" /\ resp.ok /\ SendChatReturn(k, resp)) =>
                                Replaced(ChatMsg(chats[k].userMsgId, "user", chats[k].content),
                                         Text(resp.body.bot_message[1].content[1]))]_vars

\* C15: when submitMove resolves, lastMoveCoord becomes the answer's ai_move
\* if it has one and the submitted coordinate otherwise; when submitMove
\* rejects, lastMoveCoord is unchanged.
LastMoveFollowsSubmission ==
    [][(move.pc = "submitMove" /\ move' # move) =>
          \A resp \in SubmitResponses :
              SubmitMoveReturn(resp) =>
                  /\ (resp.fetch = "resolve" /\ resp.body.ai_move # << >>) =>
                         lastMoveCoord' = resp.body.ai_move
                  /\ (resp.fetch = "resolve" /\ resp.body.ai_move = << >>) =>
                         lastMoveCoord' = move.coordinate
                  /\ resp.fetch = "reject" => UNCHANGED lastMoveCoord]_vars

\* A move has been answered with the engine's move C7, which carries the
\* marker while the board is refreshed.
MarkerOnEngineMove ==
    /\ move.pc = "getKataGoBoardState"
    /\ move.coordinate = << 74, 54 >>
    /\ lastMoveCoord = << 67, 55 >>

----------------------------------------------------------------------------
(* Order of the requests of one handler invocation (Spec) *)

\* C16: an invocation of handleMoveSubmit or handleChatMessage awaits one
\* request at a time: the engine fetch starts only when the send resolves
\* (for a chat: with a success status), the database board fetch starts only
\* when the engine fetch has returned null, and an engine answer that is not
\* null ends the invocation without a database fetch.
RequestsAreSequential ==
    [][LET Calls == { "submitMove", "sendChatMessage", "getKataGoBoardState", "getGameBoard" }
       IN  /\ move.pc \in Calls \cup { "idle" }
           /\ move'.pc # move.pc =>
                /\ move'.pc = "submitMove" => move.pc = "idle"
                /\ move'.pc = "getKataGoBoardState" =>
                       /\ move.pc = "submitMove"
                       /\ \E resp \in SubmitResponses :
                              /\ resp.fetch = "resolve"
                              /\ SubmitMoveReturn(resp) \/ UnmountedSubmitMoveReturn(resp)
                /\ move'.pc = "getGameBoard" =>
                       /\ move.pc = "getKataGoBoardState"
                       /\ \E resp \in EngineResponses(game[1].board_size) :
                              /\ getKataGoBoardState(resp) = None
                              /\ MoveEngineReturn(resp) \/ UnmountedMoveEngineReturn(resp)
                /\ move.pc = "getKataGoBoardState" =>
                       \A resp \in EngineResponses(game[1].board_size) :
                           (/\ getKataGoBoardState(resp) # None
                            /\ MoveEngineReturn(resp) \/ UnmountedMoveEngineReturn(resp)) =>
                               move'.pc = "idle"
           /\ chats' # chats =>
                /\ Len(chats') > Len(chats) =>
                       /\ chats' = Append(chats, chats'[Len(chats')])
                       /\ chats'[Len(chats')].pc = "sendChatMessage"
                /\ \A k \in 1..Len(chats) :
                       /\ chats[k].pc \in Calls
                       /\ (Len(chats') = Len(chats) /\ chats'[k].pc # chats[k].pc) =>
                              /\ chats'[k].pc = "getKataGoBoardState" =>
                                     /\ chats[k].pc = "sendChatMessage"
                                     /\ \E resp \in ChatResponses :
                                            /\ resp.fetch = "resolve" /\ resp.ok
                                            /\ \/ SendChatReturn(k, resp)
                                               \/ UnmountedSendChatReturn(k, resp)
                              /\ chats'[k].pc = "getGameBoard" =>
                                     /\ chats[k].pc = "getKataGoBoardState"
                                     /\ \E resp \in EngineResponses(game[1].board_size) :
                                            /\ getKataGoBoardState(resp) = None
                                            /\ \/ ChatEngineReturn(k, resp)
                                               \/ UnmountedChatEngineReturn(k, resp)
                              /\ chats'[k].pc # "sendChatMessage"
                       /\ (Len(chats') < Len(chats) /\ chats[k].pc = "getKataGoBoardState") =>
                              \A resp \in EngineResponses(game[1].board_size) :
                                  (/\ getKataGoBoardState(resp) # None
                                   /\ \/ ChatEngineReturn(k, resp)
                                      \/ UnmountedChatEngineReturn(k, resp))
                                      => chats' = RemoveAt(chats, k)]_vars

\* A move awaits the database board after the engine gave none, while a
\* chat started before it awaits the engine.
FallbackFetchOutstanding ==
    /\ move.pc = "getGameBoard"
    /\ Len(chats) = 1 /\ chats[1].pc = "getKataGoBoardState"

----------------------------------------------------------------------------
(* Failure of a chat send (Spec) *)

\* C17: when the chat send rejects or answers with a non-success status, the
\* step that handles it leaves no entry with the optimistic identifier in
\* the message list, sets the banner to 'Failed to send message', leaves
\* the board state (and the game and the last-move marker) as they were,
\* and ends with the thinking flag false.
ChatSendFailureRollsBack ==
    [][chats' # chats =>
          \A k \in 1..Len(chats) :
              (chats[k].pc = "sendChatMessage" /\ Len(chats') < Len(chats)) =>
                  \A resp \in ChatResponses :
                      ((resp.fetch = "reject" \/ ~resp.ok) /\ SendChatReturn(k, resp)) =>
                          /\ messages' = FilterOutId(messages, chats[k].userMsgId)
                          /\ \A i \in 1..Len(messages') :
                                 messages'[i].id # chats[k].userMsgId
                          /\ error' = FailedToSend
                          /\ boardState' = boardState
                          /\ game' = game /\ lastMoveCoord' = lastMoveCoord
                          /\ isThinking' = FALSE
                          /\ chats' = RemoveAt(chats, k)]_vars

\* A chat send has failed on a displayed board: the banner is up, the list
\* is empty again, nothing is outstanding and the board is still there.
ChatFailedOnBoard ==
    /\ error = FailedToSend /\ ~isThinking
    /\ chats = << >> /\ messages = << >>
    /\ move.pc = "idle" /\ start.pc = "idle"
    /\ boardState # None

----------------------------------------------------------------------------
(* The controller with the pointer moving over the board, used by a user
   who writes the next chat message when the last one has been answered.
   Moves, one chat and the start sequence still interleave freely. *)

\* handleHoverChange of the page, GoBoard's onHoverChange
handleHoverChange(coord) == previewCoord' = coord

\* The pointer positions the model explores: the cells, and a point of the
\* overlay above the first line
HoverCells == ModelCells \cup { << -1, 0 >> }

\* The pointer moves over the overlay of the drawn board: on the grid
\* handleCellHover names the intersection, off the grid handleCellLeave runs.
CellHover(row, col) ==
    /\ drawn
    /\ game # None /\ BoardRendered
    /\ IF OnGrid(row, col)
       THEN LET coord == getCoordinate(row, col, boardState[1].board_size)
            IN  /\ hoverCoord' = coord
                /\ handleHoverChange(coord)
       ELSE /\ hoverCoord' = << >>
            /\ handleHoverChange(<< >>)
    /\ lastOp' = ""
    /\ UNCHANGED << game, boardState, messages, isSubmitting, isThinking, error, pendingMove,
                    lastMoveCoord, now, start, move, chats, calc, track >>
    /\ Render

CellLeaveKeepsPreview ==
    /\ drawn
    /\ game # None /\ BoardRendered
    /\ hoverCoord' = << >>
    /\ handleHoverChange(previewCoord)
    /\ lastOp' = ""
    /\ UNCHANGED << game, boardState, messages, isSubmitting, isThinking, error, pendingMove,
                    lastMoveCoord, now, start, move, chats, calc, track >>
    /\ Render

\* The pointer leaves the board area
CellLeave ==
    /\ drawn
    /\ game # None /\ BoardRendered
    /\ hoverCoord' = << >>
    /\ handleHoverChange(<< >>)
    /\ lastOp' = ""
    /\ UNCHANGED << game, boardState, messages, isSubmitting, isThinking, error, pendingMove,
                    lastMoveCoord, now, start, move, chats, calc, track >>
    /\ Render

NextHover ==
    \/ Tick
    \/ \E config \in Configs : StartGame(config)
    \/ CreateGameReturns
    \/ FirstMoveReturns
    \/ InitialBoardReturns
    \/ \E resp \in HistoryResponses : ChatHistoryReturn(resp)
    \/ UnmountedChatHistoryReturn
    \/ \E cell \in ModelCells : CellClick(cell[1], cell[2])
    \/ \E resp \in SubmitResponses : SubmitMoveReturn(resp)
    \/ MoveEngineReturns
    \/ MoveBoardReturns
    \/ chats = << >> /\ \E content \in ChatInputs : ChatSubmit(content)
    \/ \E k \in 1..Len(chats), resp \in ChatResponses : SendChatReturn(k, resp)
    \/ ChatEngineReturns
    \/ ChatBoardReturns
    \/ UnmountedMoveReturns
    \/ UnmountedChatReturns
    \/ \E cell \in HoverCells : CellHover(cell[1], cell[2])
    \/ CellLeave

SpecHover == Init /\ [][NextHover]_vars

\* C18: a hover sets the preview coordinate to the name of the hovered
\* intersection and a leave sets it to null, and neither changes the game,
\* the board state, the message list, the two in-flight flags, the pending
\* move, the last-move coordinate or the banner, nor any running handler;
\* the step that accepts a move submission leaves the preview null.
HoverChangesOnlyPreview ==
    [][LET Kept == << game, boardState, messages, isSubmitting, isThinking, pendingMove,
                      lastMoveCoord, error, start, move, chats >>
       IN  /\ (game # None /\ BoardRendered) =>
                /\ \A cell \in HoverCells :
                       CellHover(cell[1], cell[2]) =>
                           /\ previewCoord' =
                                  IF OnGrid(cell[1], cell[2])
                                  THEN getCoordinate(cell[1], cell[2], boardState[1].board_size)
                                  ELSE << >>
                           /\ Kept' = Kept
                /\ CellLeave => (previewCoord' = << >> /\ Kept' = Kept)
           /\ (move.pc = "idle" /\ move'.pc = "submitMove") => previewCoord' = << >>]_vars

\* A submission has been accepted with the pointer still on the board: the
\* preview is gone although the board still holds the hovered intersection.
PreviewClearedBySubmission ==
    /\ move.pc = "submitMove" /\ isSubmitting
    /\ hoverCoord # << >> /\ previewCoord = << >>

----------------------------------------------------------------------------
(* The game of a session (SpecHover) *)

\* C19: once the game is not null no step changes it; startGame is entered
\* only while the game is null and no start request is outstanding; and a
\* game creation that fails, by a rejected request or by a non-success
\* status, leaves the game null, sets the banner and enables the setup form
\* again.
GameCreatedOnce ==
    [][/\ game # None => game' = game
       /\ (start.pc = "idle" /\ start'.pc = "createGame") => (game = None /\ ~isSubmitting)
       /\ start.pc = "createGame" =>
              \A resp \in CreateGameResponses(start.config[1]) :
                  ((resp.fetch = "reject" \/ ~resp.ok) /\ CreateGameReturn(resp)) =>
                      /\ game' = None
                      /\ error' = FailedToStart
                      /\ ~isSubmitting']_vars

----------------------------------------------------------------------------
(* The ghost stone (Spec) *)

\* C20: in every reachable state of the mounted page pendingMove is not
\* null exactly while a handleMoveSubmit invocation is running, isSubmitting
\* is then true, its row and column are what the page's parseCoordinate
\* makes of the submitted coordinate on the game's board size and its
\* colour is the game's user colour; when no submission is running, after
\* success or failure alike, it is null.  (An unmounted page has no
\* controller state: React discards it.)
GhostStoneOnlyInFlight ==
    drawn =>
        /\ pendingMove # None =>
               /\ isSubmitting /\ move.pc # "idle" /\ game # None
               /\ LET rc == pageParseCoordinate(move.coordinate, game[1].board_size)
                  IN  pendingMove[1] = [row |-> rc.row, col |-> rc.col,
                                        color |-> game[1].user_color]
        /\ move.pc = "idle" => pendingMove = None
        /\ move.pc # "idle" => pendingMove # None

\* The ghost stone is still shown while the last request of a submission,
\* the database board fetch, is awaited.
GhostShownDuringFallback ==
    /\ drawn /\ pendingMove # None
    /\ move.pc = "getGameBoard" /\ chats = << >>

----------------------------------------------------------------------------
(* The start sequence (Spec) *)

\* C21: from the step in which startGame stores the created game until the
\* end of its sequence (the first-move request, or the initial board and
\* the chat history) isSubmitting is true; no move and no chat handler is
\* running or is started in such a state, and a click or a chat form
\* submitted there is dropped without any change to the controller.
SubmittingThroughoutStart ==
    [][(game # None /\ start.pc # "idle") =>
          /\ isSubmitting
          /\ move = IdleMove /\ chats = << >>
          /\ move' = move /\ chats' = chats
          /\ \A cell \in ModelCells :
                 CellClick(cell[1], cell[2]) => (lastOp' = "move.blocked" /\ UNCHANGED ui)
          /\ \A content \in ChatInputs :
                 ChatSubmit(content) => (lastOp' = "chat.blocked" /\ UNCHANGED ui)
          /\ (game' # None /\ start'.pc # "idle") => isSubmitting']_vars

\* The user submitted a chat message while startGame was awaiting the
\* engine's first move, and it was dropped.
ChatDroppedAwaitingFirstMove ==
    /\ game # None /\ start.pc = "getFirstMove"
    /\ isSubmitting /\ lastOp = "chat.blocked"
    /\ move = IdleMove /\ chats = << >>

----------------------------------------------------------------------------
(* The board after the start sequence (SpecStart) *)

\* C22: in every reachable state in which the game is not null and
\* startGame is no longer running, the board state is not null and the
\* board is drawn, so that a click on it can be accepted.
BoardAvailableAfterStart ==
    (game # None /\ start.pc = "idle") => (boardState # None /\ BoardRendered)

----------------------------------------------------------------------------
(* The controller when every request is answered: each awaited call of a
   running handler eventually resolves or rejects.  The user writes the
   next chat message when the last one has been answered; moves, one chat
   and the start sequence interleave freely. *)

NextLive ==
    \/ Tick
    \/ \E config \in Configs : StartGame(config)
    \/ CreateGameReturns
    \/ FirstMoveReturns
    \/ InitialBoardReturns
    \/ \E resp \in HistoryResponses : ChatHistoryReturn(resp)
    \/ UnmountedChatHistoryReturn
    \/ \E cell \in ModelCells : CellClick(cell[1], cell[2])
    \/ \E resp \in SubmitResponses : SubmitMoveReturn(resp)
    \/ MoveEngineReturns
    \/ MoveBoardReturns
    \/ chats = << >> /\ \E content \in ChatInputs : ChatSubmit(content)
    \/ \E k \in 1..Len(chats), resp \in ChatResponses : SendChatReturn(k, resp)
    \/ ChatEngineReturns
    \/ ChatBoardReturns
    \/ UnmountedMoveReturns
    \/ UnmountedChatReturns

\* The call awaited by startGame returns
StartReturns ==
    \/ CreateGameReturns
    \/ FirstMoveReturns
    \/ InitialBoardReturns
    \/ \E resp \in HistoryResponses : ChatHistoryReturn(resp)
    \/ UnmountedChatHistoryReturn

\* The call awaited by handleMoveSubmit returns
MoveReturns ==
    \/ \E resp \in SubmitResponses : SubmitMoveReturn(resp)
    \/ MoveEngineReturns
    \/ MoveBoardReturns

\* The call awaited by the k-th running handleChatMessage returns
ChatReturnsAt(k) ==
    /\ k \in 1..Len(chats)
    /\ \/ \E resp \in ChatResponses : SendChatReturn(k, resp)
       \/ /\ chats[k].pc = "getKataGoBoardState"
          /\ \E resp \in EngineResponses(game[1].board_size) : ChatEngineReturn(k, resp)
       \/ /\ chats[k].pc = "getGameBoard"
          /\ \E resp \in BoardResponses(game[1]) : ChatBoardReturn(k, resp)

EveryCallReturns ==
    /\ WF_vars(StartReturns)
    /\ WF_vars(MoveReturns)
    /\ \A k \in 1..MaxChats : WF_vars(ChatReturnsAt(k))
    /\ WF_vars(UnmountedMoveReturns)
    /\ WF_vars(UnmountedChatReturns)

SpecLive == Init /\ [][NextLive]_vars /\ EveryCallReturns


\* C23: when every call returns, a running handleMoveSubmit comes to its
\* end with isSubmitting false, isThinking false and pendingMove null, a
\* running handleChatMessage comes to its end with isThinking false, a
\* running startGame comes to its end with isSubmitting false, and whenever
\* no handler is running no flag is set and there is no pending move.
AcceptedActionsComplete ==
    /\ (move.pc # "idle") ~>
           (move.pc = "idle" /\ ~isSubmitting /\ ~isThinking /\ pendingMove = None)
    /\ (chats # << >>) ~> (chats = << >> /\ ~isThinking)
    /\ (start.pc # "idle") ~> (start.pc = "idle" /\ ~isSubmitting)
    /\ []((move.pc = "idle" /\ chats = << >> /\ start.pc = "idle") =>
              (~isSubmitting /\ ~isThinking /\ pendingMove = None))

----------------------------------------------------------------------------
(* Identifiers of the message list (Spec) *)

\* C24: in every reachable state the entries of the message list have
\* pairwise distinct identifiers.
MessageIdsDistinct ==
    \A i, j \in 1..Len(messages) : i # j => messages[i].id # messages[j].id

====
